---- MODULE Spec2Model ----
(***************************************************************************)
(* FileLock / AsyncFileLock: advisory file locks taken with                *)
(* fcntl.flock(LOCK_EX | LOCK_NB) in a polling loop.                       *)
(*                                                                         *)
(* One lock file, several handles on it.  A handle is a FileLock ("sync")  *)
(* or an AsyncFileLock ("async").  Every system call is one step; the      *)
(* steps of different handles interleave freely (threads, processes, and   *)
(* tasks with their executor jobs).  Time is counted in ticks of 50 ms, so *)
(* the 0.1 s polling sleep is PollQuantum = 2 ticks.  Under Spec time may  *)
(* pass between any two steps; under SpecExact calls take no time and a    *)
(* sleep lasts exactly 0.1 s.  SpecProbe adds is_locked() to the calls,    *)
(* SpecWait is the fair, fault-free use of each handle for one with block, *)
(* and SpecScenario is a timed scenario of three handles.                  *)
(***************************************************************************)
EXTENDS Integers, FiniteSets

\* ------------------------------------------------------------------ bounds
\* The finite timeouts a handle is constructed with are 0..MaxTimeout ticks.
MaxTimeout == 2

\* --------------------------------------------------------------- constants
None == -1
PollQuantum == 2

Timeouts == {None} \cup (0..MaxTimeout)
ElapsedCap == MaxTimeout + PollQuantum + 1
FreeCap == PollQuantum + 1
Modes == {"sync", "async"}
\* A holder and a contender.
Pair == {1, 2}

VARIABLES
    mode,        \* class of the handle: FileLock or AsyncFileLock
    timeout,     \* self.timeout
    lockfile,    \* self.lockfile: None or a file object
    pc,          \* position of the caller of the handle
    elapsed,     \* time.time() - start_time, in ticks
    sleepLeft,   \* ticks left of the running sleep(0.1)
    bodyExc,     \* the protected section raised; the exception is pending
    err,         \* what the last call on the handle raised to its caller
    fdOpen,      \* the file objects that are open
    lockOwner,   \* the open file that holds the flock on the lock file
    fileExists,  \* the lock file exists
    dirExists,   \* the directory os.path.dirname(path) names exists
    bare,        \* the path has no directory component: dirname is ''
    freeFor,     \* ticks since the lock was last released, while it is free
    flockRes,    \* outcome of the last lock request of the enter call
    errArg,      \* the timeout value a raised TimeoutError carries
    probe,       \* what the last is_locked() on the handle returned or raised
    clock,       \* the stopwatch of the timing scenario, in ticks
    app          \* the data file the lock protects, and the calls under way on it

vars == <<mode, timeout, lockfile, pc, elapsed, sleepLeft, bodyExc, err,
          fdOpen, lockOwner, fileExists, dirExists, bare, freeFor, flockRes,
          errArg, probe, clock, app>>

\* The handles on the lock file are those the initial state constructs: two,
\* a holder and a contender, or the three of the timing scenario.
Handles == DOMAIN pc
\* File objects: one per handle, and one more while a handle reopens.
Fds == 1..(Cardinality(Handles) + 1)

Min(a, b) == IF a < b THEN a ELSE b

\* ---------------------------------------------------------- the OS: flock
\* An open that keeps the file object the field already refers to.
NewFileKept(h) ==
    IF lockfile[h] # None THEN lockfile[h]
    ELSE CHOOSE f \in Fds : f \notin fdOpen /\ \A g \in Handles : lockfile[g] # f

\* One file object per path, handed to every handle that opens the path.
NewFileShared(h) == CHOOSE f \in Fds : \A f2 \in Fds : f <= f2

\* open(path, 'w'): a file object no handle refers to and that is not open.
NewFile(h) ==
    CHOOSE f \in Fds :
        /\ f \notin fdOpen
        /\ \A g \in Handles : lockfile[g] # f
        /\ \A f2 \in Fds :
              (f2 \notin fdOpen /\ \A g \in Handles : lockfile[g] # f2) => f <= f2

\* flock(f, LOCK_EX | LOCK_NB) would block: another open file owns the lock.
WouldBlock(f) == lockOwner # None /\ lockOwner # f

\* The owner of the lock after flock(f, LOCK_UN) on an open file f.
OwnerAfterUnlock(f) == IF lockOwner = f THEN None ELSE lockOwner

\* A lock that stays with a file after its close.
OwnerAfterCloseKept(f) == lockOwner

\* The owner of the lock after close(f): closing the file drops its lock.
OwnerAfterClose(f) == IF lockOwner = f THEN None ELSE lockOwner

\* The handles are used on their own: the lock protects no data file.
NoApp == [kind |-> "none"]

\* ----------------------------------------------------------------- Init
\* __init__: no I/O; lockfile is None.
Init ==
    /\ pc = [h \in Pair |-> "new"]
    /\ mode \in [Handles -> Modes]
    /\ timeout \in [Handles -> Timeouts]
    /\ lockfile = [h \in Handles |-> None]
    /\ elapsed = [h \in Handles |-> 0]
    /\ sleepLeft = [h \in Handles |-> 0]
    /\ bodyExc = [h \in Handles |-> FALSE]
    /\ err = [h \in Handles |-> "none"]
    /\ fdOpen = {}
    /\ lockOwner = None
    /\ fileExists \in BOOLEAN
    /\ bare \in BOOLEAN
    /\ dirExists \in (IF bare THEN {FALSE} ELSE BOOLEAN)
    /\ freeFor = 0
    /\ flockRes = [h \in Handles |-> "none"]
    /\ errArg = [h \in Handles |-> None]
    /\ probe = [h \in Handles |-> "none"]
    /\ clock = 0
    /\ app = NoApp

\* ------------------------------------------------------- program positions
\* Between the open of the lock file and the return or raise of enter.
EnterPcs == {"try", "got", "blocked", "oserr", "tclose", "sleep"}
\* No call is running on the handle.
IdlePcs == {"new", "exited", "noop", "failed", "raised"}
\* The awaits of __aenter__ at which the task can be cancelled.
AwaitPcs == {"open", "try", "got", "blocked", "oserr", "tclose", "sleep"}

\* freeFor starts again whenever the lock changes hands.
Track == freeFor' = IF lockOwner' = lockOwner THEN freeFor ELSE 0

\* A sleep that is twice the quantum.
SleepTicksLong == 2 * PollQuantum

\* time.sleep(0.1) / asyncio.sleep(0.1), in ticks.
SleepTicks == PollQuantum

\* `if self.timeout`: None and 0 are both false.
Truthy(t) == t # None /\ t # 0

\* The comparison without the `self.timeout and` guard.
TimedOutUnguarded(h) == elapsed[h] > timeout[h]

\* `self.timeout and (time.time() - start_time) > self.timeout`
TimedOut(h) == Truthy(timeout[h]) /\ elapsed[h] > timeout[h]

\* TimeoutError raised without closing the file.
FilesAfterNoClose(h) == fdOpen

\* The open files after the self.lockfile.close() that precedes TimeoutError.
FilesAfterTimeoutClose(h) == fdOpen \ {lockfile[h]}

\* A loop that takes BlockingIOError for success.
FlockResultNoBlock(h, fault) == IF fault THEN "oserr" ELSE "got"

\* A TimeoutError that carries the time waited.
TimeoutErrorArgElapsed(h) == elapsed[h]

\* TimeoutError(f"... {self.timeout} segundos."): the value the error carries.
TimeoutErrorArg(h) == timeout[h]

\* A lock that serves contenders in the order of their start: a request is
\* refused while another handle has been polling for longer.
FlockResultFifo(h, fault) ==
    IF fault THEN "oserr"
    ELSE IF WouldBlock(lockfile[h]) THEN "blocked"
    ELSE IF \E g \in Handles :
               g # h /\ pc[g] \in {"try", "sleep"} /\ elapsed[g] > elapsed[h]
         THEN "blocked"
    ELSE "got"

\* What the flock(LOCK_EX | LOCK_NB) of the polling loop does on the handle's
\* file: "oserr" for an OS error other than would-block.
FlockResult(h, fault) ==
    IF fault THEN "oserr"
    ELSE IF WouldBlock(lockfile[h]) THEN "blocked"
    ELSE "got"

\* A loop with `except OSError:`.
CaughtAnyOSError(r) == r \in {"blocked", "oserr"}

\* `except BlockingIOError:` the only failure of the lock request the loop
\* handles; any other exception leaves enter.
Caught(r) == r = "blocked"

\* The code after the flock call of the polling loop, for its result r; owner
\* is the lock's owner after the call.  A FileLock closes the file and raises
\* in one step; an AsyncFileLock awaits the close in the executor first.
\* start_time is a local of enter: elapsed is cleared when enter is left.
Continue(h, r, owner) ==
    CASE r = "got" ->
            /\ pc' = [pc EXCEPT ![h] = "held"]
            /\ lockOwner' = owner
            /\ elapsed' = [elapsed EXCEPT ![h] = 0]
            /\ UNCHANGED <<fdOpen, sleepLeft, err, errArg>>
      [] r # "got" /\ ~Caught(r) ->
            /\ pc' = [pc EXCEPT ![h] = "failed"]
            /\ err' = [err EXCEPT ![h] = "OSError"]
            /\ lockOwner' = owner
            /\ elapsed' = [elapsed EXCEPT ![h] = 0]
            /\ UNCHANGED <<fdOpen, sleepLeft, errArg>>
      [] Caught(r) /\ TimedOut(h) /\ mode[h] = "sync" ->
            /\ fdOpen' = FilesAfterTimeoutClose(h)
            /\ lockOwner' = IF owner \notin fdOpen' THEN None ELSE owner
            /\ pc' = [pc EXCEPT ![h] = "failed"]
            /\ err' = [err EXCEPT ![h] = "TimeoutError"]
            /\ errArg' = [errArg EXCEPT ![h] = TimeoutErrorArg(h)]
            /\ elapsed' = [elapsed EXCEPT ![h] = 0]
            /\ UNCHANGED sleepLeft
      [] Caught(r) /\ TimedOut(h) /\ mode[h] = "async" ->
            /\ pc' = [pc EXCEPT ![h] = "tclose"]
            /\ lockOwner' = owner
            /\ UNCHANGED <<fdOpen, sleepLeft, err, errArg, elapsed>>
      [] Caught(r) /\ ~TimedOut(h) ->
            /\ pc' = [pc EXCEPT ![h] = "sleep"]
            /\ sleepLeft' = [sleepLeft EXCEPT ![h] = SleepTicks]
            /\ lockOwner' = owner
            /\ UNCHANGED <<fdOpen, err, errArg, elapsed>>

\* ------------------------------------------------------------ enter
\* os.makedirs(os.path.dirname(path), exist_ok=True) raises: the dirname of a
\* bare file name is '', and makedirs('') fails with FileNotFoundError.
MakedirsRaises == bare

\* __enter__ / __aenter__ is called: os.makedirs(dirname, exist_ok=True).
Enter(h) ==
    /\ pc[h] \in IdlePcs
    /\ IF MakedirsRaises
       THEN /\ pc' = [pc EXCEPT ![h] = "failed"]
            /\ err' = [err EXCEPT ![h] = "FileNotFoundError"]
            /\ UNCHANGED dirExists
       ELSE /\ pc' = [pc EXCEPT ![h] = "open"]
            /\ err' = [err EXCEPT ![h] = "none"]
            /\ dirExists' = TRUE
    /\ errArg' = [errArg EXCEPT ![h] = None]
    /\ bodyExc' = [bodyExc EXCEPT ![h] = FALSE]
    /\ flockRes' = [flockRes EXCEPT ![h] = "none"]
    /\ probe' = [probe EXCEPT ![h] = "none"]
    /\ UNCHANGED <<mode, timeout, clock, lockfile, elapsed, sleepLeft, fdOpen,
                   lockOwner, fileExists, bare, app>>
    /\ Track

\* self.lockfile = open(path, 'w'); start_time = time.time().  The file object
\* the field referred to before loses its last reference and is closed.
Open(h) ==
    /\ pc[h] = "open"
    /\ lockfile' = [lockfile EXCEPT ![h] = NewFile(h)]
    /\ fdOpen' = (fdOpen \ {lockfile[h]}) \cup {NewFile(h)}
    /\ lockOwner' = OwnerAfterClose(lockfile[h])
    /\ fileExists' = TRUE
    /\ elapsed' = [elapsed EXCEPT ![h] = 0]
    /\ pc' = [pc EXCEPT ![h] = "try"]
    /\ UNCHANGED <<mode, timeout, probe, clock, flockRes, errArg, sleepLeft,
                   bodyExc, err, dirExists, bare, app>>
    /\ Track

\* One fcntl.flock(self.lockfile, LOCK_EX | LOCK_NB).  A FileLock goes on in
\* the same thread; an AsyncFileLock ran it in the executor and its task has
\* yet to resume with the result.
TryLockWith(h, faults) ==
    /\ pc[h] = "try"
    /\ \E fault \in faults :
         LET r == FlockResult(h, fault)
             owner == IF r = "got" THEN lockfile[h] ELSE lockOwner
         IN  /\ flockRes' = [flockRes EXCEPT ![h] = r]
             /\ IF mode[h] = "sync"
                THEN Continue(h, r, owner)
                ELSE /\ pc' = [pc EXCEPT ![h] = r]
                     /\ lockOwner' = owner
                     /\ UNCHANGED <<fdOpen, sleepLeft, err, errArg, elapsed>>
    /\ UNCHANGED <<mode, timeout, probe, clock, lockfile, bodyExc, fileExists,
                   dirExists, bare, app>>
    /\ Track

\* The lock request may fail with an OS error other than would-block.
TryLock(h) == TryLockWith(h, BOOLEAN)

\* A task that takes every result of the executor's flock for success.
ResumeAnyResult(h) ==
    /\ mode[h] = "async"
    /\ pc[h] \in {"got", "blocked", "oserr"}
    /\ Continue(h, "got", lockOwner)
    /\ UNCHANGED <<mode, timeout, probe, clock, flockRes, lockfile, bodyExc,
                   fileExists, dirExists, bare, app>>
    /\ Track

\* The task of an AsyncFileLock resumes after the executor's flock.
Resume(h) ==
    /\ mode[h] = "async"
    /\ pc[h] \in {"got", "blocked", "oserr"}
    /\ Continue(h, pc[h], lockOwner)
    /\ UNCHANGED <<mode, timeout, probe, clock, flockRes, lockfile, bodyExc,
                   fileExists, dirExists, bare, app>>
    /\ Track

\* AsyncFileLock: the executor's close has run, TimeoutError is raised.
TimeoutClose(h) ==
    /\ pc[h] = "tclose"
    /\ fdOpen' = FilesAfterTimeoutClose(h)
    /\ lockOwner' = IF lockOwner \notin fdOpen' THEN None ELSE lockOwner
    /\ pc' = [pc EXCEPT ![h] = "failed"]
    /\ err' = [err EXCEPT ![h] = "TimeoutError"]
    /\ errArg' = [errArg EXCEPT ![h] = TimeoutErrorArg(h)]
    /\ elapsed' = [elapsed EXCEPT ![h] = 0]
    /\ UNCHANGED <<mode, timeout, probe, clock, flockRes, lockfile, sleepLeft,
                   bodyExc, fileExists, dirExists, bare, app>>
    /\ Track

\* The sleep of 0.1 s is over: back to the top of the loop.
Wake(h) ==
    /\ pc[h] = "sleep"
    /\ sleepLeft[h] = 0
    /\ pc' = [pc EXCEPT ![h] = "try"]
    /\ UNCHANGED <<mode, timeout, probe, clock, flockRes, errArg, lockfile,
                   elapsed, sleepLeft, bodyExc, err, fdOpen, lockOwner,
                   fileExists, dirExists, bare, app>>
    /\ Track

\* The task running __aenter__ is cancelled at an await: CancelledError is no
\* BlockingIOError and there is no finally, so it leaves __aenter__ at once.
\* A cancelled open may or may not have run in the executor; its file object
\* is never assigned; a cancelled close may or may not have run.
Cancel(h) ==
    /\ mode[h] = "async"
    /\ pc[h] \in AwaitPcs
    /\ pc' = [pc EXCEPT ![h] = "failed"]
    /\ err' = [err EXCEPT ![h] = "CancelledError"]
    /\ fileExists' \in (IF pc[h] = "open" THEN {fileExists, TRUE} ELSE {fileExists})
    /\ fdOpen' \in (IF pc[h] = "tclose" THEN {fdOpen, fdOpen \ {lockfile[h]}}
                    ELSE {fdOpen})
    /\ elapsed' = [elapsed EXCEPT ![h] = 0]
    /\ sleepLeft' = [sleepLeft EXCEPT ![h] = 0]
    /\ UNCHANGED <<mode, timeout, probe, clock, flockRes, errArg, lockfile,
                   bodyExc, lockOwner, dirExists, bare, app>>
    /\ Track

\* ------------------------------------------------------------- exit
\* The protected section ends, normally or by raising, and the with statement
\* calls __exit__ / __aexit__.
BodyEnd(h) ==
    /\ pc[h] = "held"
    /\ \E raises \in BOOLEAN : bodyExc' = [bodyExc EXCEPT ![h] = raises]
    /\ pc' = [pc EXCEPT ![h] = "exit"]
    /\ flockRes' = [flockRes EXCEPT ![h] = "none"]
    /\ probe' = [probe EXCEPT ![h] = "none"]
    /\ UNCHANGED <<mode, timeout, clock, errArg, lockfile, elapsed, sleepLeft,
                   err, fdOpen, lockOwner, fileExists, dirExists, bare, app>>
    /\ Track

\* __exit__ / __aexit__ is called on a handle outside a with block; err keeps
\* what the call before raised until this one returns.
ExitCall(h) ==
    /\ pc[h] \in IdlePcs
    /\ pc' = [pc EXCEPT ![h] = "exit"]
    /\ bodyExc' = [bodyExc EXCEPT ![h] = FALSE]
    /\ flockRes' = [flockRes EXCEPT ![h] = "none"]
    /\ probe' = [probe EXCEPT ![h] = "none"]
    /\ UNCHANGED <<mode, timeout, clock, errArg, lockfile, elapsed, sleepLeft,
                   err, fdOpen, lockOwner, fileExists, dirExists, bare, app>>
    /\ Track

\* What the caller of the with block, or of exit, gets: exit returns None, so
\* an exception of the section goes on to the caller.
ExitOutcome(h) == IF bodyExc[h] THEN "BodyError" ELSE "none"

\* `if self.lockfile and exc_type is None:` no release when the section raised.
HasLockfileNoExc(h) == lockfile[h] # None /\ ~bodyExc[h]

\* An exit without the `if self.lockfile:` test.
HasLockfileAlways(h) == TRUE

\* `if self.lockfile:` a file object is true, open or closed; None is false.
HasLockfile(h) == lockfile[h] # None

\* `if self.lockfile:` and the try block: flock(LOCK_UN).  An OS error of the
\* unlock, and the ValueError of a closed file, are caught.  With no lockfile
\* exit returns at once ("noop").
ExitUnlock(h) ==
    /\ pc[h] = "exit"
    /\ IF ~HasLockfile(h)
       THEN /\ pc' = [pc EXCEPT ![h] = "noop"]
            /\ err' = [err EXCEPT ![h] = ExitOutcome(h)]
            /\ errArg' = [errArg EXCEPT ![h] = None]
            /\ bodyExc' = [bodyExc EXCEPT ![h] = FALSE]
            /\ UNCHANGED lockOwner
       ELSE /\ pc' = [pc EXCEPT ![h] = "close"]
            /\ \E fails \in BOOLEAN :
                 lockOwner' = IF fails \/ lockfile[h] \notin fdOpen
                              THEN lockOwner
                              ELSE OwnerAfterUnlock(lockfile[h])
            /\ UNCHANGED <<err, errArg, bodyExc>>
    /\ UNCHANGED <<mode, timeout, probe, clock, flockRes, lockfile, elapsed,
                   sleepLeft, fdOpen, fileExists, dirExists, bare, app>>
    /\ Track

\* An exit that leaves the field as it is.
FieldAfterCloseKept(h) == lockfile[h]

\* `self.lockfile = None`, the statement after the close.
FieldAfterClose(h) == None

\* An exit that unlinks the lock file.
FileAfterExitUnlinked == FALSE

\* Exit has no os.remove / os.unlink: the lock file stays.
FileAfterExit == fileExists

\* finally: self.lockfile.close(); self.lockfile = None.  The close is not
\* inside a try: when it raises, the error leaves exit ("raised", with the
\* exception of the section, if any, as its context) and the assignment is
\* not reached.  A close that raises has closed the file all the same.
ExitCloseWith(h, faults) ==
    /\ pc[h] = "close"
    /\ fdOpen' = fdOpen \ {lockfile[h]}
    /\ lockOwner' = OwnerAfterClose(lockfile[h])
    /\ \E fault \in faults :
         IF fault
         THEN /\ pc' = [pc EXCEPT ![h] = "raised"]
              /\ err' = [err EXCEPT ![h] = "CloseError"]
              /\ UNCHANGED lockfile
         ELSE /\ pc' = [pc EXCEPT ![h] = "exited"]
              /\ err' = [err EXCEPT ![h] = ExitOutcome(h)]
              /\ lockfile' = [lockfile EXCEPT ![h] = FieldAfterClose(h)]
    /\ errArg' = [errArg EXCEPT ![h] = None]
    /\ bodyExc' = [bodyExc EXCEPT ![h] = FALSE]
    /\ fileExists' = FileAfterExit
    /\ UNCHANGED <<mode, timeout, probe, clock, flockRes, elapsed, sleepLeft,
                   dirExists, bare, app>>
    /\ Track

\* The close may fail with an OS error.
ExitClose(h) == ExitCloseWith(h, BOOLEAN)

\* ------------------------------------------------------------- is_locked
\* Between the two flock calls of is_locked(), called inside the protected
\* section or after a failed enter.
ProbePcs == {"probeHeld", "probeFailed"}

ProbeFrom(p) == IF p = "held" THEN "probeHeld" ELSE "probeFailed"

ProbeBack(p) == IF p = "probeHeld" THEN "held" ELSE "failed"

\* is_locked() up to its first flock: `if not self.lockfile: return False`,
\* then flock(LOCK_EX | LOCK_NB) on the handle's own file.  A closed file
\* object is true, and flock on it raises ValueError, which is not caught;
\* BlockingIOError returns True; a request that succeeds has taken the lock.
IsLocked(h) ==
    /\ pc[h] \in IdlePcs \cup {"held"}
    /\ CASE ~HasLockfile(h) ->
               /\ probe' = [probe EXCEPT ![h] = "False"]
               /\ UNCHANGED <<pc, lockOwner>>
         [] HasLockfile(h) /\ lockfile[h] \notin fdOpen ->
               /\ probe' = [probe EXCEPT ![h] = "ValueError"]
               /\ UNCHANGED <<pc, lockOwner>>
         [] HasLockfile(h) /\ lockfile[h] \in fdOpen /\ WouldBlock(lockfile[h]) ->
               /\ probe' = [probe EXCEPT ![h] = "True"]
               /\ UNCHANGED <<pc, lockOwner>>
         [] HasLockfile(h) /\ lockfile[h] \in fdOpen /\ ~WouldBlock(lockfile[h]) ->
               /\ probe' = [probe EXCEPT ![h] = "none"]
               /\ pc' = [pc EXCEPT ![h] = ProbeFrom(pc[h])]
               /\ lockOwner' = lockfile[h]
    /\ UNCHANGED <<mode, timeout, clock, flockRes, errArg, lockfile, elapsed,
                   sleepLeft, bodyExc, err, fdOpen, fileExists, dirExists, bare, app>>
    /\ Track

\* The second flock of is_locked(): flock(LOCK_UN), then `return False`.
ProbeUnlock(h) ==
    /\ pc[h] \in ProbePcs
    /\ lockOwner' = OwnerAfterUnlock(lockfile[h])
    /\ pc' = [pc EXCEPT ![h] = ProbeBack(pc[h])]
    /\ probe' = [probe EXCEPT ![h] = "False"]
    /\ UNCHANGED <<mode, timeout, clock, flockRes, errArg, lockfile, elapsed,
                   sleepLeft, bodyExc, err, fdOpen, fileExists, dirExists, bare, app>>
    /\ Track

\* ------------------------------------------------------------- time
\* A handle whose next step is a system call or a return, not a wait.
Urgent(h) == pc[h] \in {"open", "try", "got", "blocked", "oserr", "tclose",
                        "exit", "close", "probeHeld", "probeFailed"}
                \/ (pc[h] = "sleep" /\ sleepLeft[h] = 0)

\* One tick goes by: time.time() moves on for every enter under way and every
\* running sleep gets shorter.
Pass ==
    /\ elapsed' = [h \in Handles |->
                     IF pc[h] \in EnterPcs
                     THEN Min(elapsed[h] + 1, ElapsedCap) ELSE elapsed[h]]
    /\ sleepLeft' = [h \in Handles |->
                       IF pc[h] = "sleep" /\ sleepLeft[h] > 0
                       THEN sleepLeft[h] - 1 ELSE sleepLeft[h]]
    /\ freeFor' = IF lockOwner = None THEN Min(freeFor + 1, FreeCap) ELSE 0
    /\ UNCHANGED <<mode, timeout, probe, flockRes, errArg, lockfile, pc,
                   bodyExc, err, fdOpen, lockOwner, fileExists, dirExists, bare, app>>

\* One tick of the clock while some enter is under way; the stopwatch of the
\* timing scenario is not running.
Advance ==
    /\ \E h \in Handles : pc[h] \in EnterPcs
    /\ Pass
    /\ UNCHANGED clock

\* Time passes at any point: calls take time and a sleep may oversleep.
Tick == Advance

\* Time passes only while every handle waits: calls take no time and a sleep
\* lasts exactly 0.1 s.
TickExact == (\A h \in Handles : ~Urgent(h)) /\ Advance

\* ------------------------------------------------------- specifications
Step(h) ==
    \/ Enter(h)
    \/ Open(h)
    \/ TryLock(h)
    \/ Resume(h)
    \/ TimeoutClose(h)
    \/ Wake(h)
    \/ Cancel(h)
    \/ BodyEnd(h)
    \/ ExitCall(h)
    \/ ExitUnlock(h)
    \/ ExitClose(h)

Next == (\E h \in Handles : Step(h)) \/ Tick

Spec == Init /\ [][Next]_vars

NextExact == (\E h \in Handles : Step(h)) \/ TickExact

SpecExact == Init /\ [][NextExact]_vars

\* The handles are also asked for their status; calls take no time.
StepProbe(h) ==
    \/ Step(h)
    \/ IsLocked(h)
    \/ ProbeUnlock(h)

NextProbe == (\E h \in Handles : StepProbe(h)) \/ TickExact

SpecProbe == Init /\ [][NextProbe]_vars

\* Every handle is used for one with block, no lock request fails with an OS
\* error and no task is cancelled.  Threads and tasks keep running and time
\* keeps passing.
EnterOnce(h) == pc[h] = "new" /\ Enter(h)

TryLockOK(h) == TryLockWith(h, {FALSE})

ExitCloseOK(h) == ExitCloseWith(h, {FALSE})

Poll(h) ==
    \/ Open(h)
    \/ TryLockOK(h)
    \/ Resume(h)
    \/ TimeoutClose(h)
    \/ Wake(h)

StepWait(h) ==
    \/ EnterOnce(h)
    \/ Poll(h)
    \/ BodyEnd(h)
    \/ ExitUnlock(h)
    \/ ExitCloseOK(h)

NextWait == (\E h \in Handles : StepWait(h)) \/ TickExact

SpecWait ==
    /\ Init
    /\ [][NextWait]_vars
    /\ WF_vars(TickExact)
    /\ \A h \in Pair : WF_vars(Poll(h))

\* ------------------------------------------------------- timing scenario
\* Three handles on the lock file.  H1 (timeout None) enters at time 0, stays
\* in its section for HoldTicks and leaves; H2 and H3 enter StartDelay after
\* H1 with timeouts TimeoutH2 and TimeoutH3.  Calls take no time, sleeps last
\* exactly 0.1 s, no lock request or close fails and no task is cancelled.
Trio == {1, 2, 3}
HoldTicks == 20
StartDelay == 2
TimeoutH2 == 100
TimeoutH3 == 4
ScenarioEnd == HoldTicks + (2 * PollQuantum)

StartAt(h) == IF h = 1 THEN 0 ELSE StartDelay

ScenarioInit ==
    /\ pc = [h \in Trio |-> "new"]
    /\ mode \in [Handles -> Modes]
    /\ timeout = [h \in Handles |->
                    IF h = 1 THEN None ELSE IF h = 2 THEN TimeoutH2 ELSE TimeoutH3]
    /\ lockfile = [h \in Handles |-> None]
    /\ elapsed = [h \in Handles |-> 0]
    /\ sleepLeft = [h \in Handles |-> 0]
    /\ bodyExc = [h \in Handles |-> FALSE]
    /\ err = [h \in Handles |-> "none"]
    /\ fdOpen = {}
    /\ lockOwner = None
    /\ fileExists \in BOOLEAN
    /\ dirExists = TRUE
    /\ bare = FALSE
    /\ freeFor = 0
    /\ flockRes = [h \in Handles |-> "none"]
    /\ errArg = [h \in Handles |-> None]
    /\ probe = [h \in Handles |-> "none"]
    /\ clock = 0
    /\ app = NoApp

\* The handle's with statement begins at its start time.
ScenStart(h) == clock = StartAt(h) /\ EnterOnce(h)

\* The section of H1 is a sleep of HoldTicks; the others leave when they like.
ScenBodyEnd(h) == (h = 1 => clock = HoldTicks) /\ BodyEnd(h)

\* One tick of the stopwatch: nobody has a call to make, nobody is due to
\* start, and the section of H1 is not over.
ScenTick ==
    /\ clock < ScenarioEnd
    /\ \A h \in Handles :
         /\ ~Urgent(h)
         /\ pc[h] = "new" => clock < StartAt(h)
    /\ pc[1] = "held" => clock < HoldTicks
    /\ Pass
    /\ clock' = clock + 1

StepScenario(h) ==
    \/ ScenStart(h)
    \/ Poll(h)
    \/ ScenBodyEnd(h)
    \/ ExitUnlock(h)
    \/ ExitCloseOK(h)

NextScenario == (\E h \in Handles : StepScenario(h)) \/ ScenTick

SpecScenario == ScenarioInit /\ [][NextScenario]_vars

\* --------------------------------------------------------- relay scenario
\* Three handles with timeout None.  The workers H1 and H2 pass the lock to
\* each other for ever: each starts its with block when the other has left
\* its own, finds the lock free and keeps it for one polling quantum.  H3
\* enters half a quantum after H1 and polls once per quantum.  Calls take no
\* time, sleeps last exactly 0.1 s, no lock request or close fails and no
\* task is cancelled; the stopwatch counts the ticks of one round.
Workers == {1, 2}

RelayPeriod == 2 * PollQuantum

RelayStart(h) == IF h = 1 THEN 0 ELSE IF h = 2 THEN PollQuantum ELSE PollQuantum \div 2

RelayEnd(h) == IF h = 1 THEN PollQuantum ELSE 0

RelayInit ==
    /\ pc = [h \in Trio |-> "new"]
    /\ mode \in [Handles -> Modes]
    /\ timeout = [h \in Handles |-> None]
    /\ lockfile = [h \in Handles |-> None]
    /\ elapsed = [h \in Handles |-> 0]
    /\ sleepLeft = [h \in Handles |-> 0]
    /\ bodyExc = [h \in Handles |-> FALSE]
    /\ err = [h \in Handles |-> "none"]
    /\ fdOpen = {}
    /\ lockOwner = None
    /\ fileExists \in BOOLEAN
    /\ dirExists = TRUE
    /\ bare = FALSE
    /\ freeFor = 0
    /\ flockRes = [h \in Handles |-> "none"]
    /\ errArg = [h \in Handles |-> None]
    /\ probe = [h \in Handles |-> "none"]
    /\ clock = 0
    /\ app = NoApp

\* A worker begins a with block at its start time, after the other worker
\* has released; H3 begins its only with block at its start time.
RelayEnter(h) ==
    /\ clock = RelayStart(h)
    /\ IF h \in Workers THEN lockOwner = None ELSE pc[h] = "new"
    /\ Enter(h)

\* The polling loop of a handle that has no timeout.
RelayPoll(h) ==
    \/ Open(h)
    \/ TryLockOK(h)
    \/ Resume(h)
    \/ Wake(h)

\* The section of a worker ends one polling quantum after its start time.
RelayBodyEnd(h) == clock = RelayEnd(h) /\ BodyEnd(h)

\* One tick of the stopwatch: nobody has a call to make, no worker is due to
\* start and no section is due to end.
RelayTick ==
    /\ \A h \in Handles :
         /\ ~Urgent(h)
         /\ (pc[h] \in IdlePcs /\ (h \in Workers \/ pc[h] = "new"))
               => clock # RelayStart(h)
         /\ pc[h] = "held" => clock # RelayEnd(h)
    /\ Pass
    /\ clock' = (clock + 1) % RelayPeriod

StepRelay(h) ==
    \/ RelayEnter(h)
    \/ RelayPoll(h)
    \/ RelayBodyEnd(h)
    \/ ExitUnlock(h)
    \/ ExitCloseOK(h)

NextRelay == (\E h \in Handles : StepRelay(h)) \/ RelayTick

\* Threads and tasks keep running and time keeps passing.
SpecRelay == RelayInit /\ [][NextRelay]_vars /\ WF_vars(NextRelay)

\* ------------------------------------------------- threads and one event loop
\* Every handle is used for one with block: a FileLock on a thread of its
\* own, the tasks of the AsyncFileLocks on one event loop.  Calls take no time,
\* sleeps last exactly 0.1 s, no lock request or close fails and no task is
\* cancelled.
\* A wait that keeps the event loop for the whole sleep.
SleepHoldsLoopBlocking(h) == mode[h] = "async" /\ pc[h] = "sleep"

\* `await asyncio.sleep(0.1)` suspends the task: the event loop is free to
\* run the other tasks while the handle waits.
SleepHoldsLoop(h) == FALSE

\* The thread of a FileLock runs whenever it has something to do; the task of
\* an AsyncFileLock runs when no other task keeps the event loop.
Runnable(h) ==
    mode[h] = "async" =>
        \A g \in Handles \ {h} : ~(mode[g] = "async" /\ SleepHoldsLoop(g))

\* The thread or task of the handle begins its with block.
CoopEnter(h) == Runnable(h) /\ EnterOnce(h)

\* The steps of a with block that is under way.
CoopRun(h) ==
    /\ Runnable(h)
    /\ \/ Poll(h)
       \/ BodyEnd(h)
       \/ ExitUnlock(h)
       \/ ExitCloseOK(h)

\* Time passes while no thread and no task that can run has a call to make.
CoopTick ==
    /\ \A h \in Handles : Runnable(h) => ~Urgent(h)
    /\ Advance

StepCoop(h) == CoopEnter(h) \/ CoopRun(h)

NextCoop == (\E h \in Handles : StepCoop(h)) \/ CoopTick

\* Threads and the event loop keep running, every protected section ends and
\* time keeps passing.
SpecCoop ==
    /\ Init
    /\ [][NextCoop]_vars
    /\ WF_vars(CoopTick)
    /\ \A h \in Pair : WF_vars(CoopRun(h))

\* ------------------------------------------------------- holder crashes
\* Every handle is in a process of its own, and the process of a handle may
\* die inside the protected section: the OS closes its files, which drops the
\* lock, and the lock file stays.  Calls take no time.
Crash(h) ==
    /\ pc[h] = "held"
    /\ pc' = [pc EXCEPT ![h] = "dead"]
    /\ fdOpen' = fdOpen \ {lockfile[h]}
    /\ lockOwner' = OwnerAfterClose(lockfile[h])
    /\ UNCHANGED <<mode, timeout, probe, clock, flockRes, errArg, lockfile,
                   elapsed, sleepLeft, bodyExc, err, fileExists, dirExists, bare, app>>
    /\ Track

StepCrash(h) ==
    \/ Step(h)
    \/ Crash(h)

NextCrash == (\E h \in Handles : StepCrash(h)) \/ TickExact

SpecCrash == Init /\ [][NextCrash]_vars

\* --------------------------------------------------- distributed counter
\* DistributedCounter on one counter file: two client threads call
\* increment and decrement, each call in a with block of a new FileLock on
\* the counter's lock file.  Calls take no time, sleeps last exactly 0.1 s,
\* no OS call fails; the counter's timeout is longer than any wait.
MaxCalls == 4

CounterTimeout == 200

Amounts == {-1, 1, 2}

Ops == {"increment", "decrement"}

NoOp == <<"none", 0>>

Max(a, b) == IF a > b THEN a ELSE b

\* Every variable but app.
lockVars == <<mode, timeout, lockfile, pc, elapsed, sleepLeft, bodyExc, err,
              fdOpen, lockOwner, fileExists, dirExists, bare, freeFor,
              flockRes, errArg, probe, clock>>

\* data["value"] += amount / data["value"] = max(0, data["value"] - amount)
NewValue(op, v) ==
    IF op[1] = "increment" THEN v + op[2] ELSE Max(0, v - op[2])

\* _initialize_counter has written value 0; no call is under way.  seq is
\* the value after the calls so far, applied one after another in the order
\* in which they held the lock; rec is the last operation record.
CounterInit ==
    /\ pc = [h \in Pair |-> "new"]
    /\ mode = [h \in Handles |-> "sync"]
    /\ timeout = [h \in Handles |-> CounterTimeout]
    /\ lockfile = [h \in Handles |-> None]
    /\ elapsed = [h \in Handles |-> 0]
    /\ sleepLeft = [h \in Handles |-> 0]
    /\ bodyExc = [h \in Handles |-> FALSE]
    /\ err = [h \in Handles |-> "none"]
    /\ fdOpen = {}
    /\ lockOwner = None
    /\ fileExists = FALSE
    /\ dirExists = TRUE
    /\ bare = FALSE
    /\ freeFor = 0
    /\ flockRes = [h \in Handles |-> "none"]
    /\ errArg = [h \in Handles |-> None]
    /\ probe = [h \in Handles |-> "none"]
    /\ clock = 0
    /\ app = [kind |-> "counter",
              value |-> 0,
              seq |-> 0,
              calls |-> 0,
              records |-> 0,
              rec |-> [type |-> "none", amount |-> 0, old |-> 0, new |-> 0,
                       actual |-> 0, before |-> 0],
              op |-> [h \in Pair |-> NoOp],
              read |-> [h \in Pair |-> FALSE],
              data |-> [h \in Pair |-> 0]]

\* A client calls increment(client_id, amount) or decrement(client_id, amount).
CounterCall(h) ==
    /\ pc[h] \in IdlePcs
    /\ app.op[h] = NoOp
    /\ app.calls < MaxCalls
    /\ \E t \in Ops, a \in Amounts :
         app' = [app EXCEPT !.op[h] = <<t, a>>, !.calls = @ + 1]
    /\ UNCHANGED lockVars

\* with FileLock(self.lockfile, timeout=self.timeout, debug=False):
CounterEnter(h) == app.op[h] # NoOp /\ Enter(h)

\* The polling loop of a FileLock.
CounterPoll(h) ==
    \/ Open(h)
    \/ TryLockOK(h)
    \/ Wake(h)

\* with open(self.counter_file, 'r') as f: data = json.load(f)
CounterRead(h) ==
    /\ pc[h] = "held"
    /\ app.op[h] # NoOp
    /\ ~app.read[h]
    /\ app' = [app EXCEPT !.read[h] = TRUE,
                          !.data[h] = app.value,
                          !.seq = NewValue(app.op[h], @)]
    /\ UNCHANGED lockVars

\* The new value and the operation record are computed from the data read,
\* and json.dump(data, f) writes them to the counter file.
CounterWrite(h) ==
    /\ pc[h] = "held"
    /\ app.read[h]
    /\ LET old == app.data[h]
           new == NewValue(app.op[h], old)
       IN  app' = [app EXCEPT !.value = new,
                              !.records = @ + 1,
                              !.rec = [type |-> app.op[h][1],
                                       amount |-> app.op[h][2],
                                       old |-> old,
                                       new |-> new,
                                       actual |-> old - new,
                                       before |-> app.rec.new],
                              !.op[h] = NoOp,
                              !.read[h] = FALSE]
    /\ UNCHANGED lockVars

\* return data["value"]: the with block is left, without an exception.
CounterBodyEnd(h) ==
    /\ app.op[h] = NoOp
    /\ BodyEnd(h)
    /\ ~bodyExc'[h]

\* The exit of the with block, fcntl.flock(LOCK_UN) succeeding.
CounterExitUnlock(h) ==
    /\ ExitUnlock(h)
    /\ lockOwner' = OwnerAfterUnlock(lockfile[h])

StepCounter(h) ==
    \/ CounterCall(h)
    \/ CounterEnter(h)
    \/ CounterPoll(h)
    \/ CounterRead(h)
    \/ CounterWrite(h)
    \/ CounterBodyEnd(h)
    \/ CounterExitUnlock(h)
    \/ ExitCloseOK(h)

NextCounter == (\E h \in Handles : StepCounter(h)) \/ TickExact

SpecCounter == CounterInit /\ [][NextCounter]_vars

\* ------------------------------------------------------------- job queue
\* DistributedJobQueue on one queue file: two threads call add_job,
\* get_next_job, complete_job and fail_job with any arguments, each call in
\* a with block of a new FileLock on the queue's lock file.  Job ids are
\* taken to be new ones (the first 8 characters of a uuid4).
QueueTimeout == 200

JobIds == 1 .. MaxCalls

Priorities == {1, 2}

NoCall == [name |-> "none", job |-> 0, prio |-> 0, worker |-> <<"str", 0>>]

\* json.dump writes every key of data["workers"] as a string.
KeyOf(w) == w[2]

\* data["workers"][worker_id] after json.load: the keys are strings, so an
\* int is never found.
WorkerKnown(d, w) == w[1] = "str" /\ KeyOf(w) \in d.workers

\* _initialize_queue
EmptyQueue ==
    [jobs |-> [j \in JobIds |-> "absent"],
     prio |-> [j \in JobIds |-> 0],
     stats |-> [total_jobs |-> 0, pending_jobs |-> 0, completed_jobs |-> 0,
                failed_jobs |-> 0],
     workers |-> {}]

\* add_job between json.load and json.dump
AddJob(d, j, p) ==
    [d EXCEPT !.jobs[j] = "pending",
              !.prio[j] = p,
              !.stats.total_jobs = @ + 1,
              !.stats.pending_jobs = @ + 1]

PendingJobs(d) == {j \in JobIds : d.jobs[j] = "pending"}

\* pending_jobs.sort(key=priority, reverse=True); pending_jobs[0]: the sort
\* is stable and the jobs are listed in the order in which they were added.
NextJob(d) ==
    CHOOSE j \in PendingJobs(d) :
        \A k \in PendingJobs(d) :
            \/ d.prio[k] < d.prio[j]
            \/ (d.prio[k] = d.prio[j] /\ j <= k)

\* get_next_job between json.load and json.dump (no dump without a
\* pending job)
GetNextJob(d, w) ==
    IF PendingJobs(d) = {}
    THEN d
    ELSE [d EXCEPT !.jobs[NextJob(d)] = "processing",
                   !.stats.pending_jobs = @ - 1,
                   !.workers = @ \cup {KeyOf(w)}]

\* complete_job: False for a job that is missing or not in processing; the
\* KeyError of an unknown worker_id is caught and nothing is written.
CompleteJob(d, j, w) ==
    IF d.jobs[j] # "processing" \/ ~WorkerKnown(d, w)
    THEN d
    ELSE [d EXCEPT !.jobs[j] = "completed",
                   !.stats.completed_jobs = @ + 1]

\* fail_job: False for a job that is missing; no check of the status.
FailJob(d, j, w) ==
    IF d.jobs[j] = "absent" \/ ~WorkerKnown(d, w)
    THEN d
    ELSE [d EXCEPT !.jobs[j] = "failed",
                   !.stats.failed_jobs = @ + 1]

\* The data a call writes back, from the data it read.
QueueAfter(c, d) ==
    CASE c.name = "add_job" -> AddJob(d, c.job, c.prio)
      [] c.name = "get_next_job" -> GetNextJob(d, c.worker)
      [] c.name = "complete_job" -> CompleteJob(d, c.job, c.worker)
      [] c.name = "fail_job" -> FailJob(d, c.job, c.worker)

QueueInit ==
    /\ pc = [h \in Pair |-> "new"]
    /\ mode = [h \in Handles |-> "sync"]
    /\ timeout = [h \in Handles |-> QueueTimeout]
    /\ lockfile = [h \in Handles |-> None]
    /\ elapsed = [h \in Handles |-> 0]
    /\ sleepLeft = [h \in Handles |-> 0]
    /\ bodyExc = [h \in Handles |-> FALSE]
    /\ err = [h \in Handles |-> "none"]
    /\ fdOpen = {}
    /\ lockOwner = None
    /\ fileExists = FALSE
    /\ dirExists = TRUE
    /\ bare = FALSE
    /\ freeFor = 0
    /\ flockRes = [h \in Handles |-> "none"]
    /\ errArg = [h \in Handles |-> None]
    /\ probe = [h \in Handles |-> "none"]
    /\ clock = 0
    /\ app = [kind |-> "queue",
              file |-> EmptyQueue,
              calls |-> 0,
              added |-> 0,
              got |-> [j \in JobIds |-> 0],
              op |-> [h \in Pair |-> NoCall],
              read |-> [h \in Pair |-> FALSE],
              data |-> [h \in Pair |-> EmptyQueue]]

\* A call of one of the four methods by a thread.
Started == [name |-> "called", job |-> 0, prio |-> 0, worker |-> <<"str", 0>>]

\* The calls a thread can make: add_job with a new job id, and the three
\* worker methods with the thread's own worker_id, as an int (as main
\* passes it) or as a str, on a job id of the queue or on an unknown one.
CallsOf(h) ==
    {[name |-> "add_job", job |-> app.added + 1, prio |-> p,
      worker |-> <<"str", 0>>] : p \in Priorities}
    \cup {[name |-> "get_next_job", job |-> 0, prio |-> 0,
           worker |-> <<k, h>>] : k \in {"int", "str"}}
    \cup {[name |-> n, job |-> j, prio |-> 0, worker |-> <<k, h>>] :
            n \in {"complete_job", "fail_job"},
            j \in 1 .. Min(app.added + 1, MaxCalls),
            k \in {"int", "str"}}

\* A thread calls a method of the queue.
QueueCall(h) ==
    /\ pc[h] \in IdlePcs
    /\ app.op[h] = NoCall
    /\ app.calls < MaxCalls
    /\ app' = [app EXCEPT !.op[h] = Started, !.calls = @ + 1]
    /\ UNCHANGED lockVars

\* with FileLock(self.lockfile, timeout=self.timeout, debug=False):
QueueEnter(h) == app.op[h] # NoCall /\ Enter(h)

\* with open(self.queue_file, 'r') as f: data = json.load(f)
\* Which method was called, and with which arguments, has no effect before
\* this step and is drawn here.
QueueRead(h) ==
    /\ pc[h] = "held"
    /\ app.op[h] = Started
    /\ ~app.read[h]
    /\ \E c \in CallsOf(h) :
         app' = [app EXCEPT !.op[h] = c,
                            !.added = IF c.name = "add_job" THEN @ + 1 ELSE @,
                            !.read[h] = TRUE,
                            !.data[h] = app.file]
    /\ UNCHANGED lockVars

\* The rest of the with block: the change of the data read and json.dump,
\* or an early return; get_next_job returns the job it switched.
QueueWrite(h) ==
    /\ pc[h] = "held"
    /\ app.read[h]
    /\ LET c == app.op[h]
           d == app.data[h]
           new == QueueAfter(c, d)
           returned == IF c.name = "get_next_job" /\ PendingJobs(d) # {}
                       THEN {NextJob(d)} ELSE {}
       IN  app' = [app EXCEPT
                     !.file = IF new = d THEN @ ELSE new,
                     !.got = [j \in JobIds |->
                                IF j \in returned THEN @[j] + 1 ELSE @[j]],
                     !.op[h] = NoCall,
                     !.read[h] = FALSE,
                     !.data[h] = EmptyQueue]
    /\ UNCHANGED lockVars

\* return: the with block is left, without an exception.
QueueBodyEnd(h) ==
    /\ app.op[h] = NoCall
    /\ BodyEnd(h)
    /\ ~bodyExc'[h]

StepQueue(h) ==
    \/ QueueCall(h)
    \/ QueueEnter(h)
    \/ CounterPoll(h)
    \/ QueueRead(h)
    \/ QueueWrite(h)
    \/ QueueBodyEnd(h)
    \/ CounterExitUnlock(h)
    \/ ExitCloseOK(h)

NextQueue == (\E h \in Handles : StepQueue(h)) \/ TickExact

SpecQueue == QueueInit /\ [][NextQueue]_vars

\* ================================================================ claims
\* The handle is inside its protected section: enter has returned and exit
\* has not started.
InSection(h) == pc[h] = "held"

\* The exception of the protected section has reached the caller of the with
\* block.
ExcPropagated(h) == pc[h] \in {"exited", "noop"} /\ err[h] = "BodyError"

\* The open files that belong to handles other than h.
FilesOfOthers(h) == {lockfile[g] : g \in Handles \ {h}}

\* C1: mutual exclusion.  Over any interleaving of the enter and exit steps
\* of FileLock and AsyncFileLock handles on the lock file, at most one handle
\* is inside its protected section, and that handle's open file is the one
\* that owns the flock.
C1_MutualExclusion ==
    /\ \A a, b \in Handles : a # b => ~(InSection(a) /\ InSection(b))
    /\ \A h \in Handles :
         InSection(h) => lockOwner = lockfile[h] /\ lockfile[h] \in fdOpen

\* C1 witness: a FileLock and an AsyncFileLock contend; one is inside its
\* section while the other sleeps between two failed lock requests.
C1_Witness ==
    \E a, b \in Handles :
        /\ mode[a] # mode[b]
        /\ InSection(a)
        /\ pc[b] = "sleep"

\* C2: release on every exit path.  Once the exception of a protected section
\* has reached the caller, the handle's file is closed and does not own the
\* lock: every open file and the lock's owner belong to other handles, and a
\* lock request of another handle is not blocked unless a third handle owns
\* the lock.
C2_ReleaseOnException ==
    \A h \in Handles :
        ExcPropagated(h) =>
            /\ fdOpen \subseteq FilesOfOthers(h)
            /\ lockOwner \in {None} \cup FilesOfOthers(h)
            /\ \A g \in Handles \ {h} :
                 (pc[g] = "try" /\ \A k \in Handles \ {h, g} : lockOwner # lockfile[k])
                     => ~WouldBlock(lockfile[g])

\* C2 witness: the section of h raised, the exception has propagated, and
\* another handle has acquired the lock since.
C2_Witness ==
    \E h, g \in Handles :
        /\ h # g
        /\ ExcPropagated(h)
        /\ InSection(g)

\* C3: timeout accuracy.  A handle with timeout T that keeps finding the lock
\* held fails with TimeoutError no earlier than T and no later than T plus
\* one polling quantum after its start instant: it is never still waiting
\* more than T + PollQuantum after the start, and the timeout branch is never
\* taken before T.  (Stated for calls that take no time and sleeps of
\* exactly one quantum.)
C3_TimeoutWithinQuantum ==
    \A h \in Handles :
        timeout[h] # None =>
            /\ pc[h] \in EnterPcs => elapsed[h] <= timeout[h] + PollQuantum
            /\ pc[h] = "tclose" => elapsed[h] >= timeout[h]

\* C4: a handle with timeout = None never fails with TimeoutError, however
\* long the lock stays held: its enter never takes the timeout branch, and
\* when it has failed it is with an OS error of the lock request, with the
\* cancellation of its task or, before the polling began, with the error of
\* makedirs.
C4_NoTimeoutNeverFails ==
    \A h \in Handles :
        timeout[h] = None =>
            /\ err[h] # "TimeoutError"
            /\ pc[h] # "tclose"
            /\ pc[h] = "failed" =>
                  err[h] \in {"OSError", "CancelledError", "FileNotFoundError"}

\* C4 witness: a handle with timeout None still sleeps between lock requests
\* after waiting longer than every finite timeout plus a quantum, while
\* another handle is inside its section.
C4_Witness ==
    \E h, g \in Handles :
        /\ timeout[h] = None
        /\ pc[h] = "sleep"
        /\ elapsed[h] = ElapsedCap
        /\ InSection(g)

\* C5: indefinite wait makes progress.  For a contender with timeout None:
\* while it sleeps and the lock is free, the time since the release plus the
\* rest of its sleep is at most one polling quantum; a lock request it makes
\* when the lock is free acquires the lock; and once the other handle has
\* released, the contender eventually acquires the lock.
C5_IndefiniteWaitProgress ==
    /\ [](\A c \in Handles :
            (timeout[c] = None /\ pc[c] = "sleep" /\ lockOwner = None)
                => freeFor + sleepLeft[c] <= PollQuantum)
    /\ [][\A c \in Handles :
            (timeout[c] = None /\ pc[c] = "try" /\ lockOwner = None
               /\ pc'[c] # "try")
                => (pc'[c] \in {"held", "got"} /\ lockOwner' = lockfile[c])]_vars
    /\ \A c \in Pair :
         (/\ timeout[c] = None
          /\ pc[c] \in EnterPcs
          /\ \A g \in Handles \ {c} : pc[g] = "exited")
            ~> InSection(c)

\* C5 witness: the holder released one tick ago and the contender with
\* timeout None, blocked at its last lock request, is half way through its
\* sleep.
C5_Witness ==
    \E c, g \in Handles :
        /\ c # g
        /\ timeout[c] = None
        /\ pc[c] = "sleep"
        /\ sleepLeft[c] = 1
        /\ pc[g] = "exited"
        /\ lockOwner = None
        /\ freeFor = 1

\* C6: when enter has failed with TimeoutError, the file this enter opened is
\* closed and does not own the lock.
C6_TimeoutClosesDescriptor ==
    \A h \in Handles :
        (pc[h] = "failed" /\ err[h] = "TimeoutError") =>
            /\ lockfile[h] # None
            /\ lockfile[h] \notin fdOpen
            /\ lockOwner # lockfile[h]

\* C6 witness: an enter has failed with TimeoutError while another handle is
\* inside its section.
C6_Witness ==
    \E h, g \in Handles :
        /\ pc[h] = "failed"
        /\ err[h] = "TimeoutError"
        /\ InSection(g)

\* C7: when the lock request of enter has failed with an OS error other than
\* would-block, the file this enter opened is closed.
C7_OSErrorClosesDescriptor ==
    \A h \in Handles :
        (pc[h] = "failed" /\ err[h] = "OSError") => lockfile[h] \notin fdOpen

\* C8: when the task running __aenter__ has been cancelled at an await after
\* the open, the file this enter opened is closed.
C8_CancelClosesDescriptor ==
    \A h \in Handles :
        (pc[h] = "failed" /\ err[h] = "CancelledError") =>
            lockfile[h] \notin fdOpen

\* C9: idempotent release.  An exit on a handle whose lockfile is None (it
\* has released, or enter was never called) raises nothing and changes
\* neither the lockfile fields, nor the open files, nor the owner of the lock,
\* nor the lock file.
C9_ExitIdempotent ==
    [][\A h \in Handles :
         (pc[h] = "exit" /\ lockfile[h] = None /\ pc'[h] # "exit") =>
            /\ pc'[h] = "noop"
            /\ err'[h] = "none"
            /\ lockfile' = lockfile
            /\ fdOpen' = fdOpen
            /\ lockOwner' = lockOwner
            /\ fileExists' = fileExists]_vars

\* C9 witness: an exit has returned without doing anything while another
\* handle is inside its section.
C9_Witness ==
    \E h, g \in Handles :
        /\ pc[h] = "noop"
        /\ lockfile[h] = None
        /\ InSection(g)

\* C10: an exit on a handle whose enter failed with TimeoutError raises
\* nothing and changes neither the handle's lockfile field nor the owner of
\* the lock.
C10_ExitAfterTimeoutNoop ==
    [][\A h \in Handles :
         (pc[h] \in {"exit", "close"} /\ err[h] = "TimeoutError"
            /\ pc'[h] # pc[h]) =>
            /\ err'[h] \in {"TimeoutError", "none"}
            /\ lockfile'[h] = lockfile[h]
            /\ lockOwner' = lockOwner]_vars

\* The handle's file owns the lock.
Owns(h) == lockfile[h] # None /\ lockOwner = lockfile[h]

\* C11: outside a running exit, the lockfile field of a handle is set if and
\* only if the handle's file owns the lock or the handle is between the open
\* and the end of an enter; in particular the field is None after an enter
\* that failed.
C11_FieldIffOwnsOrAcquiring ==
    \A h \in Handles :
        pc[h] \notin {"exit", "close"} =>
            ((lockfile[h] # None) <=> (Owns(h) \/ pc[h] \in EnterPcs))

\* C12: a handle on which enter was never called, and a handle whose exit
\* has returned, has lockfile = None.
C12_NewOrReleasedIsEmpty ==
    \A h \in Handles :
        pc[h] \in {"new", "exited", "noop"} => lockfile[h] = None

\* C12 witness: one handle has gone through enter, section and exit, its file
\* closed, while enter was never called on the other.
C12_Witness ==
    \E h, g \in Handles :
        /\ pc[h] = "exited"
        /\ pc[g] = "new"
        /\ fileExists
        /\ fdOpen = {}

\* C13: a handle with timeout = 0 does not wait: after a lock request that
\* found the lock held, its enter neither sleeps nor makes another request;
\* it closes the file and fails with TimeoutError.
C13_ZeroTimeoutImmediate ==
    \A h \in Handles :
        (timeout[h] = 0 /\ flockRes[h] = "blocked") =>
            /\ pc[h] \in {"blocked", "tclose", "failed"}
            /\ pc[h] = "failed" => err[h] \in {"TimeoutError", "CancelledError"}

\* C14: is_locked() is total and returns a boolean in every state of the
\* handle: every call that ends returns True or False, and it returns True
\* exactly when the handle has an open file and a lock request on it would
\* block, so False when the handle has no open file.
C14_ProbeTotalBoolean ==
    [][\A h \in Handles :
         (probe'[h] # probe[h] /\ probe'[h] # "none") =>
            /\ probe'[h] \in {"True", "False"}
            /\ (probe'[h] = "True") <=>
                   (lockfile[h] \in fdOpen /\ WouldBlock(lockfile[h]))]_vars

\* C15: a failure of the close in exit is not raised to the caller: no exit
\* ends by raising the error of its close.
C15_CloseFailureNotRaised ==
    \A h \in Handles : pc[h] # "raised" /\ err[h] # "CloseError"

\* C16: when the unlock of exit fails, the failure is not raised: exit goes on
\* to the close; and when the handle's file still owns the lock at the close
\* (its unlock failed), exit closes the file, which frees the lock, sets
\* lockfile to None and returns without an error of its own.
C16_UnlockFailureSwallowed ==
    [][\A h \in Handles :
         /\ (pc[h] = "exit" /\ HasLockfile(h) /\ pc'[h] # "exit") =>
                (pc'[h] = "close" /\ err'[h] = err[h])
         /\ (pc[h] = "close" /\ Owns(h) /\ pc'[h] # "close") =>
                /\ pc'[h] = "exited"
                /\ err'[h] = ExitOutcome(h)
                /\ lockfile[h] \notin fdOpen'
                /\ lockOwner' # lockfile[h]
                /\ lockfile'[h] = None]_vars

\* The enter of the handle has returned and the unlock step of its exit has
\* not happened yet.
Holder(a) == pc[a] = "held" \/ (pc[a] = "exit" /\ Owns(a))

\* C17: cross-mode contention.  With a FileLock and an AsyncFileLock on the
\* lock file, in either role, the enter of one never returns successfully
\* while the other is a holder that has not yet reached its unlock step.
C17_CrossModeAfterUnlock ==
    [][\A a, b \in Handles :
         (a # b /\ mode[a] # mode[b] /\ pc[b] # "held" /\ pc'[b] = "held")
            => (~Holder(a) /\ lockOwner' = lockfile[b])]_vars

\* C17 witness: the synchronous holder has done its unlock step and has yet
\* to close its file, and the enter of the asynchronous contender, blocked
\* before, has returned.
C17_Witness ==
    \E a, b \in Handles :
        /\ mode[a] = "sync"
        /\ mode[b] = "async"
        /\ pc[a] = "close"
        /\ pc[b] = "held"
        /\ elapsed[b] = 0
        /\ freeFor = 0

\* Enter has returned: the handle is in its section or past it.
Acquired(h) == pc[h] \in {"held", "exit", "close", "exited"}

\* C18: the timing scenario.  H1 acquires at time 0 and keeps the lock for
\* HoldTicks.  H2 never fails with TimeoutError and acquires no earlier than
\* the release of H1 and no later than one polling quantum after it.  H3
\* never acquires; it fails with the TimeoutError that carries its timeout,
\* no earlier than its timeout and no later than one polling quantum more
\* after its start.  (While H2 waits, the time since its start stays within
\* its timeout, so the cap on elapsed plays no part.)
C18_Scenario ==
    /\ clock > 0 => Acquired(1)
    /\ pc[1] = "held" => clock <= HoldTicks
    /\ err[2] # "TimeoutError" /\ pc[2] \notin {"tclose", "failed"}
    /\ pc[2] \in EnterPcs => clock - StartDelay <= TimeoutH2
    /\ Acquired(2) => clock >= HoldTicks
    /\ clock > HoldTicks + PollQuantum => Acquired(2)
    /\ ~Acquired(3) /\ pc[3] # "got" /\ ~Owns(3)
    /\ pc[3] = "failed" =>
          /\ err[3] = "TimeoutError"
          /\ errArg[3] = TimeoutH3
          /\ lockfile[3] \notin fdOpen
          /\ clock >= StartDelay + TimeoutH3
    /\ clock > StartDelay + TimeoutH3 + PollQuantum => pc[3] = "failed"

\* C18 witness: at the end of the scenario H1 has released, H2 is in its
\* section and H3 has failed with TimeoutError.
C18_Witness ==
    /\ clock = ScenarioEnd
    /\ pc[1] = "exited"
    /\ pc[2] = "held"
    /\ pc[3] = "failed"
    /\ err[3] = "TimeoutError"

\* C19: the lock file is never deleted.  No step of enter, exit or
\* is_locked(), and no timeout failure, removes the file: once it exists it
\* exists in every later state, and it exists whenever a handle has opened it.
C19_LockFileNeverDeleted ==
    /\ [](\A h \in Handles : lockfile[h] # None => fileExists)
    /\ [][fileExists => fileExists']_vars

\* C19 witness: the file exists after one handle has acquired, released and
\* been asked for its status, and the other has failed with TimeoutError.
C19_Witness ==
    \E h, g \in Handles :
        /\ fileExists
        /\ pc[h] = "exited"
        /\ probe[h] = "False"
        /\ pc[g] = "failed"
        /\ err[g] = "TimeoutError"

\* C20: an OS error of the lock request other than would-block is fatal to
\* the enter call and is not retried: once a lock request of an enter has
\* failed that way, the call makes no other request and no sleep; it is over,
\* with the OSError raised to the caller (or the CancelledError of a task
\* cancelled before it could resume), or the task has yet to resume.
C20_OSErrorNotRetried ==
    \A h \in Handles :
        flockRes[h] = "oserr" =>
            /\ pc[h] \in {"oserr", "failed"}
            /\ sleepLeft[h] = 0
            /\ pc[h] = "failed" => err[h] \in {"OSError", "CancelledError"}
            /\ mode[h] = "sync" => (pc[h] = "failed" /\ err[h] = "OSError")

\* C20 witness: while another handle is inside its section, the lock request
\* of a handle has failed with an OS error and its enter has raised it.
C20_Witness ==
    \E h, g \in Handles :
        /\ flockRes[h] = "oserr"
        /\ pc[h] = "failed"
        /\ err[h] = "OSError"
        /\ InSection(g)

\* C21: every TimeoutError raised by enter carries the timeout the handle was
\* constructed with.
C21_TimeoutErrorCarriesTimeout ==
    \A h \in Handles :
        err[h] = "TimeoutError" =>
            (errArg[h] = timeout[h] /\ errArg[h] # None /\ errArg[h] # 0)

\* C21 witness: an enter has failed with the TimeoutError of the largest
\* timeout while another handle is inside its section.
C21_Witness ==
    \E h, g \in Handles :
        /\ pc[h] = "failed"
        /\ err[h] = "TimeoutError"
        /\ errArg[h] = MaxTimeout
        /\ InSection(g)

\* The position of a handle with the suspension points of AsyncFileLock taken
\* out: a lock request whose result the task has yet to act on is a request
\* under way, except that a request that took the lock has acquired it.
AbsPc(p) ==
    CASE p \in {"blocked", "oserr", "tclose"} -> "try"
      [] p = "got" -> "held"
      [] OTHER -> p

\* What can be seen of a handle from outside.
Vis(h) == <<AbsPc(pc[h]), lockfile[h], lockfile[h] \in fdOpen, Owns(h), err[h]>>

\* One step of FileLock on the handle, as seen from outside: makedirs, open,
\* a lock request with what follows it (return, sleep, TimeoutError after
\* the close, OSError), the end of the sleep, the call of exit, and in exit
\* the test of the field with the unlock, then the close with the clearing
\* of the field.
AlgoStep(h) ==
    LET p == AbsPc(pc[h])
        q == AbsPc(pc'[h])
        same == lockfile'[h] = lockfile[h]
        open == lockfile[h] \in fdOpen
        open2 == lockfile'[h] \in fdOpen'
        owns2 == lockfile'[h] # None /\ lockOwner' = lockfile'[h]
    IN  \/ /\ p \in IdlePcs /\ q = "open" /\ ~bare
           /\ same /\ open2 = open /\ owns2 = Owns(h)
           /\ err'[h] = "none" /\ dirExists'
        \/ /\ p \in IdlePcs /\ q = "failed" /\ bare
           /\ same /\ open2 = open /\ owns2 = Owns(h)
           /\ err'[h] = "FileNotFoundError"
        \/ /\ p = "open" /\ q = "try"
           /\ lockfile'[h] # None /\ lockfile'[h] # lockfile[h]
           /\ lockfile'[h] \notin fdOpen /\ open2 /\ ~owns2
           /\ lockfile[h] \notin fdOpen'
           /\ lockfile[h] # None => lockOwner' # lockfile[h]
           /\ err'[h] = err[h] /\ fileExists'
        \/ /\ p = "try" /\ q = "held"
           /\ flockRes'[h] = "got" /\ ~WouldBlock(lockfile[h])
           /\ same /\ open /\ open2 /\ owns2 /\ err'[h] = err[h]
        \/ /\ p = "try" /\ q = "sleep"
           /\ flockRes'[h] = "blocked" /\ ~TimedOut(h)
           /\ sleepLeft'[h] = PollQuantum
           /\ same /\ open2 /\ ~owns2 /\ err'[h] = err[h]
        \/ /\ p = "try" /\ q = "failed" /\ err'[h] = "TimeoutError"
           /\ flockRes'[h] = "blocked" /\ TimedOut(h)
           /\ errArg'[h] = timeout[h]
           /\ same /\ ~open2 /\ ~owns2
        \/ /\ p = "try" /\ q = "failed" /\ err'[h] = "OSError"
           /\ flockRes'[h] = "oserr"
           /\ same /\ open2 /\ owns2 = Owns(h)
        \/ /\ p = "sleep" /\ q = "try"
           /\ sleepLeft[h] = 0
           /\ same /\ open2 /\ ~owns2 /\ err'[h] = err[h]
        \/ /\ p \in IdlePcs \cup {"held"} /\ q = "exit"
           /\ same /\ open2 = open /\ owns2 = Owns(h) /\ err'[h] = err[h]
        \/ /\ p = "exit" /\ q = "noop"
           /\ lockfile[h] = None /\ same
           /\ err'[h] = ExitOutcome(h)
        \/ /\ p = "exit" /\ q = "close"
           /\ lockfile[h] # None /\ same /\ open2 = open
           /\ owns2 => Owns(h)
           /\ err'[h] = err[h]
        \/ /\ p = "close" /\ q = "exited"
           /\ lockfile'[h] = None
           /\ lockfile[h] \notin fdOpen' /\ lockOwner' # lockfile[h]
           /\ err'[h] = ExitOutcome(h)
        \/ /\ p = "close" /\ q = "raised"
           /\ same /\ ~open2 /\ ~owns2
           /\ err'[h] = "CloseError"

\* C22: the two classes implement one algorithm.  A FileLock is never at a
\* suspension point, and every step of a handle of either class that is not
\* the cancellation of its task either changes nothing that can be seen of
\* the handle (a suspension point of AsyncFileLock) or is a step of the
\* algorithm of FileLock, decided by the same lock request result and the
\* same timeout test, with the same outcome.
C22_OneAlgorithm ==
    /\ [](\A h \in Handles :
            mode[h] = "sync" => pc[h] \notin {"got", "blocked", "oserr", "tclose"})
    /\ [][\A h \in Handles :
            (Vis(h)' # Vis(h) /\ err'[h] # "CancelledError") => AlgoStep(h)]_vars

\* C22 witness: the task of an AsyncFileLock whose lock request has timed out
\* is suspended before the close, while a FileLock is inside its section.
C22_Witness ==
    \E a, b \in Handles :
        /\ mode[a] = "async"
        /\ pc[a] = "tclose"
        /\ mode[b] = "sync"
        /\ InSection(b)

\* C23: no ordering or fairness among contenders.  In the relay scenario H3,
\* with timeout None, goes on polling for ever (one lock request per polling
\* quantum, each one made) and never acquires, while each worker starts
\* polling after H3, acquires and releases again and again.
C23_StarvationUnderFairPolling ==
    /\ [](~Acquired(3) /\ ~Owns(3) /\ pc[3] # "got")
    /\ []<><<TryLockOK(3)>>_vars
    /\ \A w \in Workers : []<>InSection(w) /\ []<>(pc[w] = "exited")

\* C23 witness: H2, whose enter began after that of H3, is in its section
\* after its first lock request, H1 has released, and H3, refused before, is
\* still waiting.
C23_Witness ==
    /\ InSection(2)
    /\ elapsed[2] = 0
    /\ pc[1] = "exited"
    /\ pc[3] = "sleep"
    /\ flockRes[3] = "blocked"
    /\ elapsed[3] > elapsed[2]

\* C24: the status probe does not change who owns the lock.  With is_locked()
\* among the operations, a handle inside its protected section owns the lock,
\* also after a probe of its own, and no two handles are inside their
\* sections at once.
C24_ProbeKeepsOwner ==
    /\ \A h \in Handles : InSection(h) => Owns(h)
    /\ \A a, b \in Handles : (InSection(a) /\ InSection(b)) => a = b

\* C25: waiting never stalls other participants.  With FileLocks on threads
\* and AsyncFileLocks on one event loop, every protected section ending:
\* whenever a contender with timeout None is polling and no handle is inside
\* its section, some handle acquires and comes to be inside its section; and
\* a holder whose task shares the event loop with a waiting task leaves its
\* section and releases.
C25_WaitingStallsNobody ==
    /\ \A c \in Pair :
         (/\ timeout[c] = None
          /\ pc[c] \in EnterPcs
          /\ \A g \in Handles : ~InSection(g))
            ~> (\E g \in Handles : InSection(g))
    /\ \A a, c \in Pair :
         (/\ mode[a] = "async" /\ mode[c] = "async" /\ a # c
          /\ InSection(a) /\ pc[c] = "sleep")
            ~> (~InSection(a) /\ ~Owns(a))

\* C25 witness: the task of an AsyncFileLock with timeout None sleeps between
\* two lock requests while the task that holds the lock, on the same event
\* loop, has left its section and is about to unlock.
C25_Witness ==
    \E a, c \in Handles :
        /\ mode[a] = "async" /\ mode[c] = "async"
        /\ a # c
        /\ pc[a] = "exit" /\ Owns(a)
        /\ timeout[c] = None /\ pc[c] = "sleep" /\ sleepLeft[c] > 0
        /\ flockRes[c] = "blocked"

\* C26: the timeout is evaluated only after a lock attempt has failed with
\* would-block.  An enter goes to its timeout failure (the close that
\* precedes it, or the TimeoutError) only from a lock request of its own that
\* was refused with would-block; and a lock request that finds the lock free
\* makes the handle the owner and the enter return, however long ago the
\* enter started (unless the task is cancelled first).
C26_TimeoutOnlyAfterWouldBlock ==
    [][\A h \in Handles :
         /\ (err'[h] = "TimeoutError" /\ err[h] # "TimeoutError")
              => (flockRes'[h] = "blocked" /\ pc[h] \in {"try", "tclose"})
         /\ (pc'[h] = "tclose" /\ pc[h] # "tclose")
              => (flockRes[h] = "blocked" /\ pc[h] = "blocked")
         /\ (pc[h] = "try" /\ pc'[h] # "try" /\ flockRes'[h] = "got")
              => (pc'[h] \in {"held", "got"} /\ lockOwner' = lockfile[h])
         /\ (pc[h] = "got" /\ pc'[h] # "got")
              => (pc'[h] = "held" \/ err'[h] = "CancelledError")]_vars

\* C26 witness: the lock request of an AsyncFileLock has found the lock free
\* when its enter had been under way for longer than its timeout and one
\* polling quantum; the task is about to resume and return.
C26_Witness ==
    \E h \in Handles :
        /\ pc[h] = "got"
        /\ Truthy(timeout[h])
        /\ elapsed[h] > timeout[h] + PollQuantum
        /\ Owns(h)

\* C27: release never hides the outcome of the protected section.  When the
\* exit of a with block is over, the handle no longer owns the lock and the
\* caller of the block gets the exception of the section if it raised one
\* and a normal completion if it did not.
C27_ExitKeepsOutcome ==
    [][\A h \in Handles :
         (pc[h] \in {"exit", "close"} /\ pc'[h] \in {"exited", "noop", "raised"})
            => /\ lockOwner' # lockfile[h] \/ lockfile[h] = None
               /\ err'[h] = (IF bodyExc[h] THEN "BodyError" ELSE "none")]_vars

\* C28: a handle is reusable across acquisition cycles.  An enter on a handle
\* whose exit is over, or whose last enter failed with TimeoutError, starts
\* as on a new handle: no error is pending, the lock is left alone, the open
\* gives the handle a file object that was not open before and is not the one
\* it referred to, adds nothing else to the open files and starts the time of
\* the polling loop at 0; and an enter never returns while another handle is
\* inside its section.
C28_HandleReusable ==
    [][\A h \in Handles :
         /\ (pc[h] \in IdlePcs /\ pc'[h] = "open")
              => /\ err'[h] = "none" /\ errArg'[h] = None /\ flockRes'[h] = "none"
                 /\ lockfile'[h] = lockfile[h]
                 /\ fdOpen' = fdOpen /\ lockOwner' = lockOwner
         /\ (pc[h] = "open" /\ pc'[h] = "try" /\ lockfile[h] \notin fdOpen)
              => /\ lockfile'[h] # None /\ lockfile'[h] # lockfile[h]
                 /\ lockfile'[h] \notin fdOpen
                 /\ fdOpen' = fdOpen \cup {lockfile'[h]}
                 /\ \A g \in Handles \ {h} : lockfile[g] # lockfile'[h]
                 /\ lockOwner' = lockOwner
                 /\ elapsed'[h] = 0
         /\ (pc[h] # "held" /\ pc'[h] = "held")
              => /\ lockOwner' = lockfile'[h]
                 /\ \A g \in Handles \ {h} : ~InSection(g)]_vars

\* C28 witness: a handle with a timeout whose field still refers to a closed
\* file, as after an enter that failed with TimeoutError, has been entered
\* again and is about to open the lock file; the other handle is in its
\* section.
C28_Witness ==
    \E h, g \in Handles :
        /\ pc[h] = "open"
        /\ lockfile[h] # None
        /\ lockfile[h] \notin fdOpen
        /\ Truthy(timeout[h])
        /\ InSection(g)

\* C29: a lock file that already exists does not block acquisition.  The
\* lock is owned by an open file or by none; a step that closes the file
\* that owns the lock (the close of an exit or of a timed-out enter, the
\* death of the holder's process) leaves the lock free and the lock file in
\* place; and a lock request made while no open file owns the lock is not
\* refused, whether the lock file existed before the enter or not: unless the
\* OS reports another error the handle becomes the owner.
C29_LeftoverFileDoesNotBlock ==
    /\ [](lockOwner = None \/ lockOwner \in fdOpen)
    /\ [][/\ (lockOwner # None /\ lockOwner \notin fdOpen')
                => (lockOwner' = None /\ fileExists')
          /\ \A h \in Handles :
               (pc[h] = "try" /\ pc'[h] # "try" /\ lockOwner = None
                  /\ err'[h] # "CancelledError")
                  => /\ flockRes'[h] \in {"got", "oserr"}
                     /\ flockRes'[h] = "got" =>
                           (lockOwner' = lockfile[h] /\ pc'[h] \in {"got", "held"})
                     /\ flockRes'[h] = "oserr" => lockOwner' = None]_vars

\* C29 witness: the process of the holder died inside its section, the lock
\* file is still there, and the contender, which had been waiting for at
\* least one polling quantum, has just been given the lock.
C29_Witness ==
    \E h, g \in Handles :
        /\ pc[h] = "dead"
        /\ fileExists
        /\ pc[g] = "got"
        /\ Owns(g)
        /\ elapsed[g] >= PollQuantum

\* The parent directory of the path exists: the directory its dirname names,
\* or, for a bare file name, the current directory.
ParentExists == bare \/ dirExists

\* C30: step 1 of enter raises no error whenever the parent directory of the
\* path exists, a bare file name included: a call of enter on an idle handle
\* takes the handle to the open of the lock file with no error.
C30_MakedirsNoErrorIfParentExists ==
    [][\A h \in Handles :
         (/\ pc[h] \in IdlePcs
          /\ ParentExists
          /\ pc'[h] # "exit"
          /\ (pc'[h] # pc[h] \/ err'[h] # err[h]))
            => (pc'[h] = "open" /\ err'[h] = "none")]_vars

\* C31: every enter call opens its own descriptor.  No two handles refer to
\* the same open file, although all of them were constructed with the same
\* path; and the file that owns the lock is referred to by one handle at
\* most.
C31_OwnDescriptor ==
    /\ \A a, b \in Handles :
         (a # b /\ lockfile[a] # None /\ lockfile[a] \in fdOpen)
            => lockfile[a] # lockfile[b]
    /\ \A a, b \in Handles : (Owns(a) /\ Owns(b)) => a = b

\* C31 witness: both handles have an open file of their own on the lock
\* file, one inside its section and one waiting, and the waiting handle is
\* on a file it opened after an earlier one.
C31_Witness ==
    \E a, b \in Handles :
        /\ a # b
        /\ InSection(a) /\ lockfile[a] \in fdOpen
        /\ pc[b] = "sleep" /\ lockfile[b] \in fdOpen
        /\ lockfile[b] = Cardinality(Handles) + 1

\* C32: distributed counter, no lost update.  Whenever no call is between
\* its read and its write of the counter file, the stored value is the
\* result of applying the calls so far one after another in the order in
\* which they held the lock; at most one call is between its read and its
\* write; and the old_value of every operation record is the new_value of
\* the record written just before it.
C32_NoLostUpdate ==
    /\ (\A h \in Handles : ~app.read[h]) => app.value = app.seq
    /\ \A a, b \in Handles : (app.read[a] /\ app.read[b]) => a = b
    /\ app.records > 1 => app.rec.old = app.rec.before

\* C32 witness: a client has just written the second operation record, on
\* top of a positive value left by the first call, while the other client,
\* whose call is under way, sleeps in the polling loop.
C32_Witness ==
    \E a, b \in Handles :
        /\ pc[a] = "held" /\ app.op[a] = NoOp
        /\ app.records = 2
        /\ app.rec.old > 0
        /\ app.value = NewValue(<<app.rec.type, app.rec.amount>>, app.rec.old)
        /\ app.value # app.rec.old
        /\ pc[b] = "sleep" /\ app.op[b] # NoOp

\* C33: distributed counter, no negative value.  The stored value is at
\* least 0 after any calls of increment and decrement, and the record of a
\* decrement holds new_value = max(0, old_value - amount) and
\* actual_amount = old_value - new_value.
C33_NeverNegative ==
    /\ app.value >= 0
    /\ app.rec.type = "decrement" =>
         /\ app.rec.new = Max(0, app.rec.old - app.rec.amount)
         /\ app.rec.actual = app.rec.old - app.rec.new

\* C34: job queue, at most one worker per job.  A job that a get_next_job
\* call returns is switched from pending to processing in the queue file by
\* that call, while the caller holds the lock, and no job is returned by
\* two get_next_job calls.
C34_OneWorkerPerJob ==
    /\ [](\A j \in JobIds : app.got[j] <= 1)
    /\ [][\A j \in JobIds :
            app'.got[j] > app.got[j] =>
                /\ \E h \in Handles :
                     /\ Owns(h) /\ pc[h] = "held"
                     /\ app.op[h].name = "get_next_job"
                     /\ app'.op[h] = NoCall
                /\ app.file.jobs[j] = "pending"
                /\ app'.file.jobs[j] = "processing"]_vars

\* C34 witness: two jobs have been added and each thread has got one of
\* them from its get_next_job call.
C34_Witness ==
    /\ \A j \in {1, 2} : app.got[j] = 1 /\ app.file.jobs[j] = "processing"
    /\ app.file.workers = Pair
    /\ app.file.stats.pending_jobs = 0

\* The number of jobs of a queue file in a status.
CountStatus(d, st) == Cardinality({j \in JobIds : d.jobs[j] = st})

\* C35: job queue, the statistics agree with the job table.  In the queue
\* file total_jobs is the number of jobs, and pending_jobs, completed_jobs
\* and failed_jobs are the numbers of jobs whose status is pending,
\* completed and failed.
C35_StatsAgree ==
    /\ app.file.stats.total_jobs = Cardinality(JobIds) - CountStatus(app.file, "absent")
    /\ app.file.stats.pending_jobs = CountStatus(app.file, "pending")
    /\ app.file.stats.completed_jobs = CountStatus(app.file, "completed")
    /\ app.file.stats.failed_jobs = CountStatus(app.file, "failed")

\* C36: job queue, the status only moves forward.  Every change of a job's
\* status in the queue file is the addition of a pending job, pending to
\* processing, or processing to completed or failed; complete_job and
\* fail_job change only a job in processing, and a completed or failed job
\* keeps its status.
C36_StatusForward ==
    [][\A j \in JobIds :
         app'.file.jobs[j] # app.file.jobs[j] =>
             \/ app.file.jobs[j] = "absent" /\ app'.file.jobs[j] = "pending"
             \/ /\ app.file.jobs[j] = "pending"
                /\ app'.file.jobs[j] = "processing"
                /\ \E h \in Handles : app.op[h].name = "get_next_job"
                                      /\ app'.op[h] = NoCall
             \/ /\ app.file.jobs[j] = "processing"
                /\ app'.file.jobs[j] \in {"completed", "failed"}]_vars

====
